---- MODULE Spec2Model ----
(***************************************************************************)
(* Model of the GPIO 1-Wire bus master driver,                             *)
(* drivers/w1/masters/w1-gpio.c.                                           *)
(*                                                                         *)
(* State: the platform device's environment (device tree or board file,    *)
(* which GPIO lines are wired), the driver's platform data, the three GPIO *)
(* lines, the bus master registered with the w1 framework, and the         *)
(* position of the two threads that can be inside the driver: the bus      *)
(* thread (one bus operation at a time, serialised by the framework) and   *)
(* the platform thread that runs probe and remove.                         *)
(***************************************************************************)
EXTENDS Integers, FiniteSets, Sequences, TLC

(* ----- bounds ---------------------------------------------------------- *)

\* set_pullup() delays are drawn from 1..MaxDelay
MaxDelay == 2
\* msleep(d) sleeps at least d and at most d + MaxOversleep ticks
MaxOversleep == 1

(* ----- constants ------------------------------------------------------- *)

ENOENT == 2
ENXIO == 6
ENOMEM == 12
EBUSY == 16
EINVAL == 22

\* GPIO line indexes of the device (con_id NULL, index 0..2)
IDX_DATA == 0
IDX_STRONG_PULLUP == 1
IDX_PULLDOWN == 2

Indexes == {IDX_DATA, IDX_STRONG_PULLUP, IDX_PULLDOWN}

\* enum gpiod_flags values the driver uses
GPIOD_IN == "GPIOD_IN"
GPIOD_OUT_LOW == "GPIOD_OUT_LOW"
GPIOD_OUT_LOW_OPEN_DRAIN == "GPIOD_OUT_LOW_OPEN_DRAIN"

(* ----- pointers to GPIO descriptors ------------------------------------ *)
\* A descriptor pointer is 0 (NULL), a negative errno (ERR_PTR) or the
\* descriptor of line idx, idx + 1.

NULL_DESC == 0
Desc(idx) == idx + 1
LineOf(desc) == desc - 1
ERR_PTR(errno) == 0 - errno
IS_ERR(ptr) == ptr < 0
PTR_ERR(ptr) == ptr

\* errors a wired line's acquisition can end with (0: none)
GpioErrs == {0, EBUSY, EINVAL}
\* errors of w1_add_master_device (0: none)
AddErrs == {0, EINVAL, ENOMEM}

VARIABLES
    of_dt,          \* of_have_populated_dt()
    plat_supplied,  \* the board file supplies platform data (no device tree)
    od_prop,        \* the device node has the "linux,open-drain" property
    wired,          \* the GPIO line indexes the device description supplies
    platform_data,  \* dev->platform_data: struct w1_gpio_platform_data
    lines,          \* the GPIO lines: requested, direction, driven value
    level,          \* the logical level gpiod_get_value reads on the data line
    master,         \* struct w1_bus_master: is set_pullup set
    registered,     \* the bus master is registered with the w1 framework
    pc,             \* bus thread: "idle" or "pullup_sleep" (inside msleep)
    slept,          \* ticks slept in the msleep of the pulse in progress
    rm_pc,          \* platform thread: "idle" or "remove_unregister"
    call,           \* the last completed call: operation, argument, result
    probe_in,       \* the outcomes the environment gave the last probe
    pulses          \* pulses begun since the last set_pullup(d != 0)

vars == <<of_dt, plat_supplied, od_prop, wired, platform_data, lines, level,
          master, registered, pc, slept, rm_pc, call, probe_in, pulses>>

env == <<of_dt, plat_supplied, od_prop, wired>>

(* ----- struct w1_gpio_platform_data ------------------------------------ *)

\* a NULL platform data pointer
NullPdata ==
    [valid |-> FALSE, gpiod |-> NULL_DESC, strong_pullup_gpiod |-> NULL_DESC,
     pulldown_gpiod |-> NULL_DESC, strong_pullup_duration |-> 0]

\* zeroed platform data (devm_kzalloc, or a static board-file structure)
ZeroPdata == [NullPdata EXCEPT !.valid = TRUE]

(* ----- gpiolib --------------------------------------------------------- *)

FreeLine == [req |-> FALSE, dir |-> "none", val |-> 0, od |-> FALSE]

\* the line state a successful request with the given flags leaves
gpiod_configure(ln, idx, flags) ==
    [ln EXCEPT ![idx] = [req |-> TRUE,
                         dir |-> IF flags = GPIOD_IN THEN "in" ELSE "out",
                         val |-> 0,
                         od |-> (flags = GPIOD_OUT_LOW_OPEN_DRAIN)]]

\* devm_gpiod_get_index: a line that is not described is an error
devm_gpiod_get_index(w, idx, err) ==
    IF idx \notin w THEN ERR_PTR(ENOENT)
    ELSE IF err # 0 THEN ERR_PTR(err)
    ELSE Desc(idx)

\* devm_gpiod_get_index_optional: a line that is not described is NULL
devm_gpiod_get_index_optional(w, idx, err) ==
    IF idx \notin w THEN NULL_DESC
    ELSE IF err # 0 THEN ERR_PTR(err)
    ELSE Desc(idx)

gpiod_set_value(ln, desc, v) == [ln EXCEPT ![LineOf(desc)].val = v]

gpiod_direction_output(ln, desc, v) ==
    [ln EXCEPT ![LineOf(desc)].dir = "out", ![LineOf(desc)].val = v]

gpiod_get_value(desc, lvl) == lvl

\* devres releases the lines when probe fails and after remove
devm_release(ln) == [i \in Indexes |-> [ln[i] EXCEPT !.req = FALSE]]

(* ----- w1_gpio_set_pullup ---------------------------------------------- *)

\* delay != 0: the duration is stored, nothing else happens
PullupArm(pdata, delay) == [pdata EXCEPT !.strong_pullup_duration = delay]

\* delay == 0: is a duration pending
PullupPending(pdata) == pdata.strong_pullup_duration # 0

\* delay == 0 and a duration is pending: is there a line to pulse
PullupAvailable(pdata) == pdata.strong_pullup_gpiod # NULL_DESC

\* mutation: the line is left active when the pulse ends
PullupLeaveActive(pdata, ln) == ln

\* the line states when the pulse begins and when it ends
PullupActivate(pdata, ln) ==
    gpiod_set_value(ln, pdata.strong_pullup_gpiod, 1)
PullupDeactivate(pdata, ln) ==
    gpiod_set_value(ln, pdata.strong_pullup_gpiod, 0)

\* msleep(strong_pullup_duration) has slept long enough
SleepDone(pdata, ticks) == ticks >= pdata.strong_pullup_duration

\* mutation: the stored duration is not cleared
PullupKeep(pdata) == pdata

\* the stored duration after any delay == 0 call
PullupClear(pdata) == [pdata EXCEPT !.strong_pullup_duration = 0]

\* the value w1_gpio_set_pullup returns
PullupReturn == 0

(* ----- w1_gpio_write_bit, w1_gpio_read_bit ----------------------------- *)

\* !bit of a u8
LogicalNot(bit) == IF bit = 0 THEN 1 ELSE 0

\* mutation: the pull-down line is driven to bit, not to !bit
write_bit_not_inverted(pdata, ln, bit) ==
    IF pdata.pulldown_gpiod # NULL_DESC
    THEN gpiod_set_value(ln, pdata.pulldown_gpiod, bit)
    ELSE gpiod_set_value(ln, pdata.gpiod, bit)

\* mutation: the data line is driven to !bit
write_bit_data_inverted(pdata, ln, bit) ==
    IF pdata.pulldown_gpiod # NULL_DESC
    THEN gpiod_set_value(ln, pdata.pulldown_gpiod, LogicalNot(bit))
    ELSE gpiod_set_value(ln, pdata.gpiod, LogicalNot(bit))

w1_gpio_write_bit(pdata, ln, bit) ==
    IF pdata.pulldown_gpiod # NULL_DESC
    THEN gpiod_set_value(ln, pdata.pulldown_gpiod, LogicalNot(bit))
    ELSE gpiod_set_value(ln, pdata.gpiod, bit)

\* mutation: the sense of the level is inverted
read_bit_inverted(pdata, lvl) ==
    IF gpiod_get_value(pdata.gpiod, lvl) # 0 THEN 0 ELSE 1

w1_gpio_read_bit(pdata, lvl) ==
    IF gpiod_get_value(pdata.gpiod, lvl) # 0 THEN 1 ELSE 0

(* ----- the bus ---------------------------------------------------------- *)

\* the master holds the bus low: through the pull-down line when there is
\* one, through the data line otherwise
PulledLow(pdata, ln) ==
    IF pdata.pulldown_gpiod > NULL_DESC
    THEN ln[IDX_PULLDOWN].dir = "out" /\ ln[IDX_PULLDOWN].val = 1
    ELSE ln[IDX_DATA].dir = "out" /\ ln[IDX_DATA].val = 0

\* the levels the data line can read: low when the master holds it low,
\* otherwise whatever the slaves and the pull-up resistor make of it
BusLevels(pdata, ln) == IF PulledLow(pdata, ln) THEN {0} ELSE {0, 1}

(* ----- w1_gpio_probe --------------------------------------------------- *)

\* the flags of the data line before the pull-down line is looked at
ProbeDefaultFlags(dt, od) ==
    IF dt /\ od THEN GPIOD_OUT_LOW ELSE GPIOD_OUT_LOW_OPEN_DRAIN

\* the flags the data line is requested with
ProbeDataFlags(gflags, pulldown) ==
    IF pulldown # NULL_DESC THEN GPIOD_IN ELSE gflags

\* the three line acquisitions
PulldownGet(w, err) == devm_gpiod_get_index_optional(w, IDX_PULLDOWN, err)
DataGet(w, err) == devm_gpiod_get_index(w, IDX_DATA, err)
StrongPullupGet(w, err) == devm_gpiod_get_index(w, IDX_STRONG_PULLUP, err)

\* mutation: no platform data is reported as an allocation failure
NoConfigAsNomem == 0 - ENOMEM

\* the error returned when there is no platform data
NoConfigError == 0 - ENXIO

\* mutation: the strong-pullup line is not looked at
AdvertiseOpenDrainOnly(gflags, pdata) == gflags = GPIOD_OUT_LOW_OPEN_DRAIN

\* is master->set_pullup set
AdvertisePullup(gflags, pdata) ==
    gflags = GPIOD_OUT_LOW_OPEN_DRAIN \/ pdata.strong_pullup_gpiod # NULL_DESC

\* what a probe that returns an error leaves: devres releases the lines
ProbeFail(err, pdata, ln) ==
    [ret |-> err, pdata |-> pdata, lines |-> devm_release(ln),
     set_pullup |-> FALSE, registered |-> FALSE]

\* the outcome the environment gives a probe: nothing fails, or one of the
\* allocations, of the acquisitions of a wired line or w1_add_master_device
\* fails (probe returns at the first failure, so one is enough)
ProbeInputs ==
    [fault : {"none", "pdata_alloc", "master_alloc"}, errno : {0}]
        \cup [fault : {"pulldown", "data", "strong"}, errno : GpioErrs \ {0}]
        \cup [fault : {"add"}, errno : AddErrs \ {0}]

NoProbe == [fault |-> "none", errno |-> 0]

\* the error the environment gives step `at` of the probe (0: none)
FaultAt(in, at) == IF in.fault = at THEN in.errno ELSE 0

w1_gpio_probe(pdata0, ln0, in) ==
    LET gflags0 == ProbeDefaultFlags(of_dt, od_prop)
        pdata1 == IF of_dt THEN ZeroPdata ELSE pdata0
        pulldown == PulldownGet(wired, FaultAt(in, "pulldown"))
        pdata2 == [pdata1 EXCEPT !.pulldown_gpiod = pulldown]
        ln2 == IF pulldown > NULL_DESC
               THEN gpiod_configure(ln0, IDX_PULLDOWN, GPIOD_OUT_LOW) ELSE ln0
        gflags == ProbeDataFlags(gflags0, pulldown)
        data == DataGet(wired, FaultAt(in, "data"))
        pdata3 == [pdata2 EXCEPT !.gpiod = data]
        ln3 == IF data > NULL_DESC
               THEN gpiod_configure(ln2, IDX_DATA, gflags) ELSE ln2
        strong == StrongPullupGet(wired, FaultAt(in, "strong"))
        pdata4 == [pdata3 EXCEPT !.strong_pullup_gpiod = strong]
        ln4 == IF strong > NULL_DESC
               THEN gpiod_configure(ln3, IDX_STRONG_PULLUP, GPIOD_OUT_LOW)
               ELSE ln3
        ln5 == IF pdata4.pulldown_gpiod = NULL_DESC
               THEN gpiod_direction_output(ln4, pdata4.gpiod, 1) ELSE ln4
    IN  IF of_dt /\ in.fault = "pdata_alloc"
        THEN ProbeFail(0 - ENOMEM, pdata0, ln0)
        ELSE IF ~pdata1.valid THEN ProbeFail(NoConfigError, pdata1, ln0)
        ELSE IF in.fault = "master_alloc"
        THEN ProbeFail(0 - ENOMEM, pdata1, ln0)
        ELSE IF IS_ERR(pulldown) THEN ProbeFail(PTR_ERR(pulldown), pdata2, ln0)
        ELSE IF IS_ERR(data) THEN ProbeFail(PTR_ERR(data), pdata3, ln2)
        ELSE IF IS_ERR(strong) THEN ProbeFail(PTR_ERR(strong), pdata4, ln3)
        ELSE IF FaultAt(in, "add") # 0
        THEN ProbeFail(0 - FaultAt(in, "add"), pdata4, ln5)
        ELSE [ret |-> 0, pdata |-> pdata4, lines |-> ln5,
              set_pullup |-> AdvertisePullup(gflags, pdata4),
              registered |-> TRUE]

(* ----- w1_gpio_remove -------------------------------------------------- *)

\* mutation: remove does not touch the strong-pullup line
RemoveSkipDeactivate(pdata, ln) == ln

RemoveDeactivate(pdata, ln) ==
    IF pdata.strong_pullup_gpiod # NULL_DESC
    THEN gpiod_set_value(ln, pdata.strong_pullup_gpiod, 0)
    ELSE ln

RemoveReturn == 0

(* ----- the state machine ----------------------------------------------- *)

Init ==
    /\ of_dt \in BOOLEAN
    /\ plat_supplied \in BOOLEAN
    /\ od_prop \in BOOLEAN
    /\ wired \in SUBSET Indexes
    /\ platform_data = IF plat_supplied THEN ZeroPdata ELSE NullPdata
    /\ lines = [i \in Indexes |-> FreeLine]
    /\ level = 1
    /\ master = [set_pullup |-> FALSE]
    /\ registered = FALSE
    /\ pc = "idle"
    /\ slept = 0
    /\ rm_pc = "idle"
    /\ call = [op |-> "none", arg |-> 0, ret |-> 0]
    /\ probe_in = NoProbe
    /\ pulses = 0

\* the driver core binds the device: w1_gpio_probe runs
Probe ==
    /\ ~registered /\ rm_pc = "idle" /\ pc = "idle"
    /\ \E in \in ProbeInputs :
         LET r == w1_gpio_probe(platform_data, lines, in) IN
           /\ platform_data' = r.pdata
           /\ lines' = r.lines
           /\ master' = [set_pullup |-> r.set_pullup]
           /\ registered' = r.registered
           /\ call' = [op |-> "probe", arg |-> 0, ret |-> r.ret]
           /\ probe_in' = in
           /\ level' \in BusLevels(r.pdata, r.lines)
    /\ UNCHANGED <<env, pc, slept, rm_pc, pulses>>

\* the framework calls master->read_bit
ReadBit ==
    /\ registered /\ pc = "idle"
    /\ call' = [op |-> "read_bit", arg |-> 0,
                ret |-> w1_gpio_read_bit(platform_data, level)]
    /\ UNCHANGED <<env, platform_data, lines, level, master, registered, pc,
                   slept, rm_pc, probe_in, pulses>>

\* the framework calls master->write_bit
WriteBit(bit) ==
    /\ registered /\ pc = "idle"
    /\ lines' = w1_gpio_write_bit(platform_data, lines, bit)
    /\ level' \in BusLevels(platform_data, lines')
    /\ call' = [op |-> "write_bit", arg |-> bit, ret |-> 0]
    /\ UNCHANGED <<env, platform_data, master, registered, pc, slept, rm_pc,
                   probe_in, pulses>>

\* the framework calls master->set_pullup with a delay
SetPullupArm(delay) ==
    /\ registered /\ master.set_pullup /\ pc = "idle"
    /\ platform_data' = PullupArm(platform_data, delay)
    /\ call' = [op |-> "set_pullup", arg |-> delay, ret |-> PullupReturn]
    /\ pulses' = 0
    /\ UNCHANGED <<env, lines, level, master, registered, pc, slept, rm_pc,
                   probe_in>>

\* set_pullup(0) with nothing to pulse: no duration pending, or no line
SetPullupNoPulse ==
    /\ registered /\ master.set_pullup /\ pc = "idle"
    /\ ~(PullupPending(platform_data) /\ PullupAvailable(platform_data))
    /\ platform_data' = PullupClear(platform_data)
    /\ call' = [op |-> "set_pullup", arg |-> 0, ret |-> PullupReturn]
    /\ UNCHANGED <<env, lines, level, master, registered, pc, slept, rm_pc,
                   probe_in, pulses>>

\* set_pullup(0) with a duration pending: the line goes active, msleep begins
SetPullupBegin ==
    /\ registered /\ master.set_pullup /\ pc = "idle"
    /\ PullupPending(platform_data) /\ PullupAvailable(platform_data)
    /\ lines' = PullupActivate(platform_data, lines)
    /\ pc' = "pullup_sleep"
    /\ slept' = 0
    /\ pulses' = IF pulses < 2 THEN pulses + 1 ELSE pulses
    /\ UNCHANGED <<env, platform_data, level, master, registered, rm_pc, call,
                   probe_in>>

\* a tick of the msleep
SleepTick ==
    /\ pc = "pullup_sleep"
    /\ slept < platform_data.strong_pullup_duration + MaxOversleep
    /\ slept' = slept + 1
    /\ UNCHANGED <<env, platform_data, lines, level, master, registered, pc,
                   rm_pc, call, probe_in, pulses>>

\* msleep returns: the line goes inactive, the duration is cleared
SetPullupEnd ==
    /\ pc = "pullup_sleep"
    /\ SleepDone(platform_data, slept)
    /\ lines' = PullupDeactivate(platform_data, lines)
    /\ platform_data' = PullupClear(platform_data)
    /\ pc' = "idle"
    /\ call' = [op |-> "set_pullup", arg |-> 0, ret |-> PullupReturn]
    /\ UNCHANGED <<env, level, master, registered, slept, rm_pc, probe_in,
                   pulses>>

\* the slaves or the pull-up resistor change the level of the released bus
BusChange ==
    /\ ~PulledLow(platform_data, lines)
    /\ level' = 1 - level
    /\ UNCHANGED <<env, platform_data, lines, master, registered, pc, slept,
                   rm_pc, call, probe_in, pulses>>

\* the driver core unbinds the device: w1_gpio_remove deactivates the
\* strong pull-up; a bus operation may be in progress
RemoveBegin ==
    /\ registered /\ rm_pc = "idle"
    /\ lines' = RemoveDeactivate(platform_data, lines)
    /\ rm_pc' = "remove_unregister"
    /\ UNCHANGED <<env, platform_data, level, master, registered, pc, slept,
                   call, probe_in, pulses>>

\* w1_remove_master_device returns once no bus operation is in progress;
\* w1_gpio_remove returns and devres releases the lines
RemoveUnregister ==
    /\ rm_pc = "remove_unregister" /\ pc = "idle"
    /\ registered' = FALSE
    /\ lines' = devm_release(lines)
    /\ rm_pc' = "idle"
    /\ call' = [op |-> "remove", arg |-> 0, ret |-> RemoveReturn]
    /\ UNCHANGED <<env, platform_data, level, master, pc, slept, probe_in,
                   pulses>>

Next ==
    \/ Probe
    \/ ReadBit
    \/ \E bit \in {0, 1} : WriteBit(bit)
    \/ \E delay \in 1..MaxDelay : SetPullupArm(delay)
    \/ SetPullupNoPulse
    \/ SetPullupBegin
    \/ SleepTick
    \/ SetPullupEnd
    \/ BusChange
    \/ RemoveBegin
    \/ RemoveUnregister

Spec == Init /\ [][Next]_vars

(* ----- shorthands of the properties ------------------------------------ *)

StrongPullupLine == lines[IDX_STRONG_PULLUP]
DataLine == lines[IDX_DATA]
PulldownLine == lines[IDX_PULLDOWN]
Duration == platform_data.strong_pullup_duration
HasPulldown == platform_data.pulldown_gpiod # NULL_DESC
ConfigSupplied == of_dt \/ plat_supplied
AnyWriteBit == \E bit \in {0, 1} : WriteBit(bit)
AnySetPullupArm == \E delay \in 1..MaxDelay : SetPullupArm(delay)

(* ----- C1 --------------------------------------------------------------- *)

\* C1: with a strong-pullup line, set_pullup(d), d != 0, followed by
\* set_pullup(0) drives the line active, keeps it active while it sleeps at
\* least the stored duration d (no detach being in progress), then drives it
\* inactive and clears the stored duration; set_pullup(0) pulses only when a
\* duration is stored, so no armed duration is applied twice.
C1_PulseOncePerArm ==
    /\ []((call.op = "set_pullup" /\ call.arg # 0) => Duration = call.arg)
    /\ [][((SetPullupNoPulse \/ SetPullupBegin)
            /\ call.op = "set_pullup" /\ call.arg # 0
            /\ platform_data.strong_pullup_gpiod # NULL_DESC)
          => (pc' = "pullup_sleep" /\ StrongPullupLine'.val = 1)]_vars
    /\ []((pc = "pullup_sleep" /\ rm_pc = "idle") => StrongPullupLine.val = 1)
    /\ [][SetPullupEnd => (/\ slept >= Duration
                           /\ Duration # 0
                           /\ StrongPullupLine'.val = 0
                           /\ Duration' = 0)]_vars
    /\ [][SetPullupNoPulse => (lines' = lines /\ Duration' = 0)]_vars
    /\ [](pulses <= 1)

\* a pulse has been delivered and set_pullup(0) has returned
C1_Witness ==
    /\ registered /\ pc = "idle" /\ pulses = 1
    /\ call.op = "set_pullup" /\ call.arg = 0
    /\ slept >= 1 /\ Duration = 0 /\ StrongPullupLine.val = 0

(* ----- C2 --------------------------------------------------------------- *)

\* C2: with a pull-down line, write_bit(b) leaves the pull-down line at the
\* inverse of b, and the data line is an input that is never driven.
C2_PulldownInverted ==
    (registered /\ HasPulldown) =>
        /\ DataLine.dir = "in" /\ DataLine.val = 0
        /\ (call.op = "write_bit" /\ call.arg = 1) => PulldownLine.val = 0
        /\ (call.op = "write_bit" /\ call.arg = 0) => PulldownLine.val = 1

\* write_bit(1) has been called on a transport with a pull-down line
C2_Witness ==
    /\ registered /\ HasPulldown
    /\ call.op = "write_bit" /\ call.arg = 1 /\ PulldownLine.val = 0

(* ----- C3 --------------------------------------------------------------- *)

\* C3: without a pull-down line, write_bit(b) sets the data line's driven
\* value to b and changes no other line and not the stored duration.
C3_DataLineDriven ==
    /\ []((registered /\ ~HasPulldown /\ call.op = "write_bit")
            => DataLine.val = call.arg)
    /\ [][(AnyWriteBit /\ ~HasPulldown)
          => (/\ DataLine'.val = call'.arg
              /\ StrongPullupLine' = StrongPullupLine
              /\ PulldownLine' = PulldownLine
              /\ DataLine' = [DataLine EXCEPT !.val = call'.arg]
              /\ platform_data' = platform_data)]_vars

\* write_bit(0) has been called on a transport without a pull-down line
C3_Witness ==
    /\ registered /\ ~HasPulldown
    /\ call.op = "write_bit" /\ call.arg = 0 /\ DataLine.val = 0

(* ----- C4 --------------------------------------------------------------- *)

\* C4: read_bit returns 1 when the data line's level is high and 0 when it
\* is low, and changes no line, no level and not the platform data.
C4_ReadBitLevel ==
    [][ReadBit => (/\ (call'.ret = 1) <=> (level = 1)
                   /\ (call'.ret = 0) <=> (level = 0)
                   /\ lines' = lines
                   /\ level' = level
                   /\ platform_data' = platform_data)]_vars

\* read_bit has returned 0 on a low data line
C4_Witness ==
    registered /\ call.op = "read_bit" /\ call.ret = 0 /\ level = 0

(* ----- C5 --------------------------------------------------------------- *)

\* C5: remove drives the strong-pullup line inactive whatever its state
\* was, does so before the bus master is unregistered, leaves it inactive
\* and returns 0.
C5_RemoveDeactivates ==
    /\ [][RemoveBegin => StrongPullupLine'.val = 0]_vars
    /\ [][(registered /\ ~registered')
          => (rm_pc = "remove_unregister" /\ StrongPullupLine.val = 0
              /\ StrongPullupLine'.val = 0)]_vars
    /\ [](call.op = "remove" => (call.ret = 0 /\ StrongPullupLine.val = 0))

\* remove began during a pulse and has deactivated the line
C5_Witness ==
    /\ rm_pc = "remove_unregister" /\ pc = "pullup_sleep"
    /\ StrongPullupLine.val = 0

(* ----- C6 --------------------------------------------------------------- *)

\* C6: probe without configuration data returns -ENXIO, which is not
\* -ENOMEM and which no other failure of probe returns, acquires no line
\* and registers no bus master.
C6_NoConfigDistinct ==
    /\ (call.op = "probe" /\ ~ConfigSupplied) =>
          /\ call.ret = 0 - ENXIO
          /\ call.ret # 0 - ENOMEM
          /\ \A i \in Indexes : lines[i] = FreeLine
          /\ ~registered
    /\ (call.op = "probe" /\ call.ret = 0 - ENXIO) => ~ConfigSupplied

\* a probe without configuration data has failed
C6_Witness == call.op = "probe" /\ ~ConfigSupplied /\ call.ret < 0

(* ----- C7 --------------------------------------------------------------- *)

\* C7: a device without a strong-pullup line attaches, and on it a
\* set_pullup(0) after an arm returns 0, changes no line and clears the
\* stored duration: the missing line is not fatal.
C7_MissingPullupDropped ==
    /\ (/\ call.op = "probe" /\ probe_in.fault = "none" /\ ConfigSupplied
        /\ IDX_DATA \in wired /\ IDX_STRONG_PULLUP \notin wired)
       => (registered /\ platform_data.strong_pullup_gpiod = NULL_DESC)
    /\ (/\ registered /\ IDX_STRONG_PULLUP \notin wired
        /\ call.op = "set_pullup" /\ call.arg = 0)
       => (call.ret = 0 /\ Duration = 0 /\ StrongPullupLine = FreeLine)

(* ----- C8 --------------------------------------------------------------- *)

\* C8: when configuration data is supplied, nothing fails and the data line
\* is wired, probe returns 0 and registers the bus master, whether or not
\* the strong-pullup and the pull-down lines are wired.
C8_OptionalLines ==
    (/\ call.op = "probe" /\ probe_in.fault = "none" /\ ConfigSupplied
     /\ IDX_DATA \in wired)
    => (call.ret = 0 /\ registered)

(* ----- C9 --------------------------------------------------------------- *)

C10_PullupIdleInactive ==
    /\ []((registered /\ pc = "idle") => StrongPullupLine.val = 0)
    /\ [][(~registered /\ registered')
          => (StrongPullupLine'.req /\ StrongPullupLine'.val = 0)]_vars
    /\ [][(ReadBit \/ AnyWriteBit \/ AnySetPullupArm)
          => StrongPullupLine' = StrongPullupLine]_vars
    /\ [][AnySetPullupArm => (Duration' = call'.arg /\ lines' = lines)]_vars
    /\ []((call.op = "set_pullup" /\ call.arg # 0) => Duration = call.arg)
    /\ []((call.op = "set_pullup" /\ call.arg = 0)
            => (Duration = 0 /\ StrongPullupLine.val = 0))

\* after a delivered pulse a new duration is armed and the line is inactive
C10_Witness ==
    /\ registered /\ pc = "idle" /\ StrongPullupLine.req
    /\ call.op = "set_pullup" /\ call.arg = 1 /\ Duration = 1
    /\ StrongPullupLine.val = 0 /\ pulses = 0 /\ slept >= 1

====
